---- MODULE Spec2Model ----
(***************************************************************************)
(* A model of the .hif tool (src/src/main.rs): the PNG -> HIF encoder,     *)
(* the HIF -> PNG decoder and rasterizer, the gzip wrapper and the viewer  *)
(* that receives the rasterized image through the file temp.png.           *)
(***************************************************************************)
EXTENDS Integers, Sequences, FiniteSets, TLC

(* ------------------------------ bounds -------------------------------- *)

\* Largest number of pixels of a source bitmap (width * height <= MaxPixels).
MaxPixels == 4

\* Largest width and height a hand-made container header declares.
MaxDim == 2

\* Largest number of bytes after the header of a hand-made container.
MaxStream == 7

\* Largest length of a file given to compress_hif_file.
MaxFile == 5

\* Length of the read buffer of compress_hif_file: the program's 4096 bytes,
\* scaled down so that files shorter than, equal to and longer than one or
\* more buffers, multiples of it or not, are within MaxFile.
BufferLen == 2

\* Largest number of view commands run one after another.
MaxRuns == 3

(* ----------------------------- constants ------------------------------ *)

\* An absent file or value is the empty sequence, a present one <<value>>.
NoFile == <<>>
None == <<>>
Some(v) == <<v>>

\* The two byte orders a build of the program can have as its native order.
Endians == {"le", "be"}

Red == <<255, 0, 0>>
Green == <<0, 255, 0>>
Blue == <<0, 0, 255>>
White == <<255, 255, 255>>
Palette == {Red, Green, Blue, White}

\* Alpha values a source pixel may carry.
Alphas == {128, 255}

\* Byte values of a hand-made pixel stream.
StreamBytes == {0, 255}

(* ------------------------------ state --------------------------------- *)

VARIABLES
    endian,      \* native byte order of the host
    img,         \* the decoded source image of convert_png_to_hif, or NoFile
    hif,         \* content of the .hif file, or NoFile
    pc,          \* position of the running command
    ret,         \* how the command ended: "none", "Ok", "Err", "returned", a panic
    width,       \* hif_to_png: local width
    height,      \* hif_to_png: local height
    pixel_data,  \* hif_to_png: contents[8..]
    surface,     \* hif_to_png: the raster surface, or None
    i,           \* hif_to_png: index of the next chunk of the paint loop
    draws,       \* history of the draw_rect calls: <<x, y, stream offset>>
    temp,        \* content of the file TEMP_RESULT_PATH, or NoFile
    \* compress_hif_file
    cin,         \* content of the input file
    cpos,        \* read position in the input file
    buffer,      \* the read buffer
    cfed,        \* the bytes written to the encoder so far
    cpc,         \* position in compress_hif_file
    cret,        \* its result: "none", "Ok", "Err"
    io_failed,   \* the reads and writes that have failed so far
    \* the view command, one entry per process
    active,      \* the processes that run view commands
    vpc,         \* position of each process in run_app
    run,         \* number of the view command each process is running
    container,   \* the container each process views
    image,       \* the PNG bytes each process got from its surface, or None
    loaded,      \* the image_data each process read in SamPreview::default, or None
    writer,      \* the process and run that wrote the present temp.png
    loaded_of    \* the process and run that wrote what each process read

codecVars == <<endian, img, hif, pc, ret, width, height, pixel_data, surface, i, draws>>
compressVars == <<cin, cpos, buffer, cfed, cpc, cret, io_failed>>
viewVars == <<active, vpc, run, container, image, loaded, writer, loaded_of>>
vars == <<codecVars, temp, compressVars, viewVars>>

(* ------------------------- helpers of the codec ----------------------- *)

Reverse(s) == [k \in 1..Len(s) |-> s[Len(s) + 1 - k]]

\* Coordinates of a w x h grid.
Coords(w, h) == (0..(w - 1)) \X (0..(h - 1))

\* u32::to_ne_bytes
to_ne_bytes(n, e) ==
    LET le == <<n % 256, (n \div 256) % 256, (n \div 65536) % 256, (n \div 16777216) % 256>>
    IN  IF e = "le" THEN le ELSE Reverse(le)

\* Sam::convert_bytes_to_u32_ne (bytes has length 4 at both call sites)
convert_bytes_to_u32_ne(bytes, e) ==
    LET le == IF e = "le" THEN bytes ELSE Reverse(bytes)
    IN  le[1] + 256 * le[2] + 65536 * le[3] + 16777216 * le[4]

\* img.pixels(): the pixels of the image, x fastest, then y.
pixels(im) ==
    [k \in 1..(im.width * im.height) |->
        im.px[<<(k - 1) % im.width, (k - 1) \div im.width>>]]

\* An encoder that stores the channels of a pixel in the order B, G, R.
push_pixel_bgr(data, pixel) == data \o <<pixel[3], pixel[2], pixel[1]>>

\* An encoder that also stores the alpha channel of every pixel.
push_pixel_rgba(data, pixel) == data \o <<pixel[1], pixel[2], pixel[3], pixel[4]>>

\* An encoder that stores the alpha channel in place of the blue channel.
push_pixel_rga(data, pixel) == data \o <<pixel[1], pixel[2], pixel[4]>>

\* The body of the pixel loop of convert_png_to_hif: push R, G, B.
push_pixel(data, pixel) == data \o <<pixel[1], pixel[2], pixel[3]>>

RECURSIVE push_pixels(_, _)
\* The pixel loop of convert_png_to_hif.
push_pixels(data, ps) ==
    IF ps = <<>> THEN data ELSE push_pixels(push_pixel(data, Head(ps)), Tail(ps))

\* The buffer convert_png_to_hif builds and writes.
hif_bytes(im, e) ==
    push_pixels(to_ne_bytes(im.width, e) \o to_ne_bytes(im.height, e), pixels(im))

\* Number of chunks of chunks_exact(3).
num_chunks(data) == Len(data) \div 3

\* Chunk k (from 0) of chunks_exact(3).
chunk(data, k) == SubSeq(data, 3 * k + 1, 3 * k + 3)

\* Surface::new_raster: a zeroed w x h surface; None for an empty one.
new_raster(w, h) ==
    IF w >= 1 /\ h >= 1
    THEN Some([width |-> w, height |-> h, pix |-> [c \in Coords(w, h) |-> <<0, 0, 0, 0>>]])
    ELSE None

\* Color4f::new(r / 255.0, g / 255.0, b / 255.0, 1.0), channels as fractions.
color4f(c) ==
    <<[num |-> c[1], den |-> 255], [num |-> c[2], den |-> 255],
      [num |-> c[3], den |-> 255], [num |-> 1, den |-> 1]>>

\* An RGBA8888 channel of a unit-range value: scale by 255 and round.
to_byte(f) == (2 * 255 * f.num + f.den) \div (2 * f.den)

\* canvas.draw_rect of the 1 x 1 rectangle at (x, y): clipped to the surface.
draw_rect(s, x, y, col) ==
    IF x < s.width /\ y < s.height
    THEN [s EXCEPT !.pix[<<x, y>>] =
            <<to_byte(col[1]), to_byte(col[2]), to_byte(col[3]), to_byte(col[4])>>]
    ELSE s

\* A rasterizer that takes the row for the column and the column for the row.
paint_position_swapped(k, w) == <<k \div w, k % w>>

\* The position the paint loop gives chunk k: (k % width, k / width).
paint_position(k, w) == <<k % w, k \div w>>

\* One iteration of the paint loop of hif_to_png.
paint_chunk(s, data, k, w) ==
    LET pos == paint_position(k, w)
    IN  draw_rect(s, pos[1], pos[2], color4f(chunk(data, k)))

RECURSIVE paint_from(_, _, _, _)
\* The paint loop of hif_to_png from chunk k on.
paint_from(s, data, k, w) ==
    IF k >= num_chunks(data) THEN s
    ELSE paint_from(paint_chunk(s, data, k, w), data, k + 1, w)

\* image.encode_to_data(PNG): the PNG of a surface's snapshot.
encode_png(s) == [format |-> "PNG", width |-> s.width, height |-> s.height, pix |-> s.pix]

(* ----------------------------- the codec ------------------------------ *)

\* The shapes of the source bitmaps: at most MaxPixels pixels.
Shapes == {d \in (1..MaxPixels) \X (1..MaxPixels) : d[1] * d[2] <= MaxPixels}

\* The source bitmaps: every shape, every colouring from the palette, opaque
\* or with a half-transparent first row.
Bitmaps ==
    UNION { UNION { { [width |-> d[1], height |-> d[2],
                       px |-> [c \in Coords(d[1], d[2]) |->
                                 col[c] \o <<IF opaque \/ c[2] > 0 THEN 255 ELSE 128>>]]
                      : col \in [Coords(d[1], d[2]) -> Palette] }
                    : opaque \in BOOLEAN }
            : d \in Shapes }

\* Hand-made containers: a header declaring 0..MaxDim x 0..MaxDim followed by
\* any stream of at most MaxStream bytes, and every proper prefix of a header.
Buffers(e) ==
    LET headers == {to_ne_bytes(w, e) \o to_ne_bytes(h, e) : w \in 0..MaxDim, h \in 0..MaxDim}
        streams == UNION {[1..n -> StreamBytes] : n \in 0..MaxStream}
    IN  {hd \o st : hd \in headers, st \in streams}
        \cup {SubSeq(hd, 1, n) : hd \in headers, n \in 0..7}

\* The panics of the commands, by cause.
PanicNotFound == "panic: File not found!"
PanicRead == "panic: Couldn't read file."
PanicSlice == "panic: range end index out of range for slice"
PanicUnwrap == "panic: called Option::unwrap() on a None value"
PanicDivZero == "panic: attempt to calculate the remainder with a divisor of zero"
PanicWrite == "panic: Failed to write image data to file"
Panics == {PanicNotFound, PanicRead, PanicSlice, PanicUnwrap, PanicDivZero, PanicWrite}

\* A panic ends the command.
Panic(cause) ==
    /\ pc' = "done"
    /\ ret' = cause

\* Sam::convert_png_to_hif
convert_png_to_hif ==
    /\ pc = "compile"
    /\ IF img = NoFile
       THEN Panic(PanicNotFound) /\ hif' = hif
       ELSE \E written \in BOOLEAN :
              IF written
              THEN hif' = Some(hif_bytes(img[1], endian)) /\ ret' = "Ok" /\ pc' = "view"
              ELSE hif' = hif /\ ret' = "Err" /\ pc' = "done"
    /\ UNCHANGED <<endian, img, width, height, pixel_data, surface, i, draws, temp>>
    /\ UNCHANGED <<compressVars, viewVars>>

\* Sam::hif_to_png up to the paint loop: read the file, parse the header, make
\* the surface.
hif_to_png_read ==
    /\ pc = "view"
    /\ IF hif = NoFile \/ Len(hif[1]) < 8
       THEN /\ Panic(IF hif = NoFile THEN PanicRead ELSE PanicSlice)
            /\ UNCHANGED <<width, height, pixel_data, surface>>
       ELSE LET contents == hif[1]
                w == convert_bytes_to_u32_ne(SubSeq(contents, 1, 4), endian)
                h == convert_bytes_to_u32_ne(SubSeq(contents, 5, 8), endian)
                s == new_raster(w, h)
            IN  /\ width' = w
                /\ height' = h
                /\ pixel_data' = SubSeq(contents, 9, Len(contents))
                /\ surface' = s
                /\ IF s = None THEN Panic(PanicUnwrap) ELSE pc' = "paint" /\ ret' = "none"
    /\ UNCHANGED <<endian, img, hif, i, draws, temp>>
    /\ UNCHANGED <<compressVars, viewVars>>

\* One iteration of the paint loop of Sam::hif_to_png.
hif_to_png_paint ==
    /\ pc = "paint"
    /\ i < num_chunks(pixel_data)
    /\ IF width = 0
       THEN Panic(PanicDivZero) /\ UNCHANGED <<surface, i, draws>>
       ELSE /\ surface' = Some(paint_chunk(surface[1], pixel_data, i, width))
            /\ draws' = Append(draws, paint_position(i, width) \o <<3 * i>>)
            /\ i' = i + 1
            /\ UNCHANGED <<pc, ret>>
    /\ UNCHANGED <<endian, img, hif, width, height, pixel_data, temp>>
    /\ UNCHANGED <<compressVars, viewVars>>

\* The end of Sam::hif_to_png: snapshot, PNG export, write of TEMP_RESULT_PATH.
hif_to_png_export ==
    /\ pc = "paint"
    /\ i = num_chunks(pixel_data)
    /\ \E encoded \in BOOLEAN, written \in BOOLEAN :
         IF encoded
         THEN IF written
              THEN temp' = Some(encode_png(surface[1])) /\ pc' = "done" /\ ret' = "returned"
              ELSE temp' = temp /\ Panic(PanicWrite)
         ELSE temp' = temp /\ pc' = "done" /\ ret' = "returned"
    /\ UNCHANGED <<endian, img, hif, width, height, pixel_data, surface, i, draws>>
    /\ UNCHANGED <<compressVars, viewVars>>

\* No compress command.
IdleCompress ==
    /\ cin = <<>>
    /\ cpos = 0
    /\ buffer = <<>>
    /\ cfed = <<>>
    /\ cpc = "idle"
    /\ cret = "none"
    /\ io_failed = {}

\* No view process.
IdleView ==
    /\ active = {}
    /\ vpc = <<>>
    /\ run = <<>>
    /\ container = <<>>
    /\ image = <<>>
    /\ loaded = <<>>
    /\ writer = <<>>
    /\ loaded_of = <<>>

InitLocals ==
    /\ IdleCompress
    /\ IdleView
    /\ ret = "none"
    /\ width = 0
    /\ height = 0
    /\ pixel_data = <<>>
    /\ surface = None
    /\ i = 0
    /\ draws = <<>>
    /\ temp = NoFile

\* compile <img.png>, then view <img.hif>.
InitCodec ==
    /\ endian \in Endians
    /\ img \in {Some(b) : b \in Bitmaps} \cup {NoFile}
    /\ hif = NoFile
    /\ pc = "compile"
    /\ InitLocals

NextCodec ==
    \/ convert_png_to_hif
    \/ hif_to_png_read
    \/ hif_to_png_paint
    \/ hif_to_png_export

SpecCodec == InitCodec /\ [][NextCodec]_vars

\* view <file.hif> of a hand-made container.
InitDecode ==
    /\ endian \in Endians
    /\ img = NoFile
    /\ hif \in {Some(b) : b \in Buffers(endian)}
    /\ pc = "view"
    /\ InitLocals

NextDecode ==
    \/ hif_to_png_read
    \/ hif_to_png_paint
    \/ hif_to_png_export

SpecDecode == InitDecode /\ [][NextDecode]_vars

(* --------------------------- compression ------------------------------ *)

Min(a, b) == IF a < b THEN a ELSE b

\* The files given to compress_hif_file.
Files == UNION {[1..n -> StreamBytes] : n \in 0..MaxFile}

\* What reader.read(&mut buffer) can return at position pos of the file f:
\* an error, or Ok(count) with count = 0 at the end of the file only and at
\* most the length of the buffer.
read_results(f, pos) ==
    {<<"Err", 0>>}
        \cup {<<"Ok", n>> : n \in (IF pos = Len(f) THEN 0 ELSE 1)..Min(BufferLen, Len(f) - pos)}

\* The slice the loop writes to the encoder: &buffer[..count].
written_slice(buf, count) == SubSeq(buf, 1, count)

\* Lines 95-102 of compress_hif_file: open the input, create the output.
compress_open ==
    /\ cpc = "open"
    /\ \E opened \in BOOLEAN, created \in BOOLEAN :
         IF opened /\ created
         THEN cpc' = "loop" /\ cret' = cret
         ELSE cpc' = "done" /\ cret' = "Err"
    /\ buffer' = [k \in 1..BufferLen |-> 0]
    /\ UNCHANGED <<cin, cpos, cfed, io_failed>>
    /\ UNCHANGED <<codecVars, temp, viewVars>>

\* One turn of the while-let loop of compress_hif_file: a read, then the break,
\* the write_all or the end of the loop.
compress_loop ==
    /\ cpc = "loop"
    /\ \E r \in read_results(cin, cpos), wrote \in BOOLEAN :
         IF r[1] = "Err"
         THEN \* the pattern Ok(count) does not match: the loop ends
              /\ cpc' = "finish"
              /\ io_failed' = io_failed \cup {"read"}
              /\ UNCHANGED <<cpos, buffer, cfed, cret>>
         ELSE IF r[2] = 0
         THEN /\ cpc' = "finish"
              /\ UNCHANGED <<cpos, buffer, cfed, cret, io_failed>>
         ELSE LET count == r[2]
                  filled == [k \in 1..BufferLen |->
                               IF k <= count THEN cin[cpos + k] ELSE buffer[k]]
              IN  /\ cpos' = cpos + count
                  /\ buffer' = filled
                  /\ IF wrote
                     THEN /\ cfed' = cfed \o written_slice(filled, count)
                          /\ UNCHANGED <<cpc, cret, io_failed>>
                     ELSE /\ cpc' = "done"
                          /\ cret' = "Err"
                          /\ io_failed' = io_failed \cup {"write"}
                          /\ cfed' = cfed
    /\ UNCHANGED cin
    /\ UNCHANGED <<codecVars, temp, viewVars>>

\* Lines 109-110 of compress_hif_file: encoder.finish()?, Ok(()).
compress_finish ==
    /\ cpc = "finish"
    /\ \E finished \in BOOLEAN :
         IF finished
         THEN cret' = "Ok" /\ io_failed' = io_failed
         ELSE cret' = "Err" /\ io_failed' = io_failed \cup {"finish"}
    /\ cpc' = "done"
    /\ UNCHANGED <<cin, cpos, buffer, cfed>>
    /\ UNCHANGED <<codecVars, temp, viewVars>>

\* No compile or view command of the codec.
IdleCodec ==
    /\ endian = "le"
    /\ img = NoFile
    /\ hif = NoFile
    /\ pc = "idle"
    /\ ret = "none"
    /\ width = 0
    /\ height = 0
    /\ pixel_data = <<>>
    /\ surface = None
    /\ i = 0
    /\ draws = <<>>

\* compress <file.hif>
InitCompress ==
    /\ IdleCodec
    /\ IdleView
    /\ temp = NoFile
    /\ cin \in Files
    /\ cpos = 0
    /\ buffer = <<>>
    /\ cfed = <<>>
    /\ cpc = "open"
    /\ cret = "none"
    /\ io_failed = {}

NextCompress ==
    \/ compress_open
    \/ compress_loop
    \/ compress_finish

SpecCompress == InitCompress /\ [][NextCompress]_vars

\* C5: when a read of the input or a write of the output has failed,
\* compress_hif_file returns an error, never Ok.
CompressionErrorsSurface ==
    (cpc = "done" /\ io_failed # {}) => cret = "Err"

\* C6: when compress_hif_file returns Ok, the bytes it gave the compressor are,
\* in order, the whole content of the input file.
CompressionFidelity ==
    (cpc = "done" /\ cret = "Ok") => cfed = cin

\* Without a failed read, an Ok result comes with the whole input compressed.
FidelityWithoutReadError ==
    (cpc = "done" /\ cret = "Ok" /\ "read" \notin io_failed) => cfed = cin

(* ------------------------------ the viewer ---------------------------- *)

Procs == {1, 2}

\* The containers the view commands are given: the encodings of the 1 x 1
\* bitmaps of the palette.
ViewContainers(e) ==
    {hif_bytes([width |-> 1, height |-> 1, px |-> [c \in Coords(1, 1) |-> col \o <<255>>]],
               e) : col \in Palette}

\* Lines 50-85 of hif_to_png for a well-formed container: the PNG bytes of the
\* painted surface.
rasterize(contents, e) ==
    LET w == convert_bytes_to_u32_ne(SubSeq(contents, 1, 4), e)
        h == convert_bytes_to_u32_ne(SubSeq(contents, 5, 8), e)
    IN  encode_png(paint_from(new_raster(w, h)[1], SubSeq(contents, 9, Len(contents)), 0, w))

\* The command of process p ends in a panic.
view_panic(p) == vpc' = [vpc EXCEPT ![p] = "panic"]

\* hif_to_png up to encode_to_data: the PNG bytes, or None when the export fails.
view_rasterize(p) ==
    /\ vpc[p] = "start"
    /\ \E encoded \in BOOLEAN :
         image' = [image EXCEPT ![p] =
                     IF encoded THEN Some(rasterize(container[p], endian)) ELSE None]
    /\ vpc' = [vpc EXCEPT ![p] = "write"]
    /\ UNCHANGED <<active, run, container, loaded, writer, loaded_of, temp>>
    /\ UNCHANGED <<codecVars, compressVars>>

\* The rest of hif_to_png: fs::write(TEMP_RESULT_PATH, bytes) when there are
\* bytes, and the return.
view_write(p) ==
    /\ vpc[p] = "write"
    /\ \E written \in BOOLEAN :
         IF image[p] = None
         THEN /\ vpc' = [vpc EXCEPT ![p] = "native"]
              /\ UNCHANGED <<temp, writer>>
         ELSE IF written
         THEN /\ temp' = image[p]
              /\ writer' = Some(<<p, run[p]>>)
              /\ vpc' = [vpc EXCEPT ![p] = "native"]
         ELSE /\ view_panic(p)
              /\ UNCHANGED <<temp, writer>>
    /\ UNCHANGED <<active, run, container, image, loaded, loaded_of>>
    /\ UNCHANGED <<codecVars, compressVars>>

\* run_app after hif_to_png: eframe::run_native either calls the creator of
\* SamPreview or returns an error before it does.
view_run_native(p) ==
    /\ vpc[p] = "native"
    /\ \E started \in BOOLEAN :
         vpc' = [vpc EXCEPT ![p] = IF started THEN "default" ELSE "err"]
    /\ UNCHANGED <<active, run, container, image, loaded, writer, loaded_of, temp>>
    /\ UNCHANGED <<codecVars, compressVars>>

\* SamPreview::default, line 135: std::fs::read(TEMP_RESULT_PATH).
view_read(p) ==
    /\ vpc[p] = "default"
    /\ IF temp = NoFile
       THEN view_panic(p) /\ UNCHANGED <<loaded, loaded_of>>
       ELSE /\ loaded' = [loaded EXCEPT ![p] = temp]
            /\ loaded_of' = [loaded_of EXCEPT ![p] = writer]
            /\ vpc' = [vpc EXCEPT ![p] = "remove"]
    /\ UNCHANGED <<active, run, container, image, writer, temp>>
    /\ UNCHANGED <<codecVars, compressVars>>

\* SamPreview::default, lines 137-141: fs::remove_file(TEMP_RESULT_PATH).
view_remove(p) ==
    /\ vpc[p] = "remove"
    /\ IF temp = NoFile
       THEN view_panic(p) /\ UNCHANGED <<temp, writer>>
       ELSE /\ temp' = NoFile
            /\ writer' = None
            /\ vpc' = [vpc EXCEPT ![p] = "shown"]
    /\ UNCHANGED <<active, run, container, image, loaded, loaded_of>>
    /\ UNCHANGED <<codecVars, compressVars>>

\* The command of process p has ended; its next view command starts.
view_next(p) ==
    /\ vpc[p] \in {"shown", "err", "panic"}
    /\ run[p] < MaxRuns
    /\ run' = [run EXCEPT ![p] = run[p] + 1]
    /\ \E c \in ViewContainers(endian) : container' = [container EXCEPT ![p] = c]
    /\ vpc' = [vpc EXCEPT ![p] = "start"]
    /\ image' = [image EXCEPT ![p] = None]
    /\ loaded' = [loaded EXCEPT ![p] = None]
    /\ loaded_of' = [loaded_of EXCEPT ![p] = None]
    /\ UNCHANGED <<active, writer, temp>>
    /\ UNCHANGED <<codecVars, compressVars>>

\* The view processes ps, each at the start of its first command.
InitViewOf(ps) ==
    /\ IdleCodec
    /\ IdleCompress
    /\ temp = NoFile
    /\ writer = None
    /\ active = ps
    /\ vpc = [p \in ps |-> "start"]
    /\ run = [p \in ps |-> 1]
    /\ container \in [ps -> ViewContainers(endian)]
    /\ image = [p \in ps |-> None]
    /\ loaded = [p \in ps |-> None]
    /\ loaded_of = [p \in ps |-> None]

\* One process runs view commands one after another.
InitView == InitViewOf({1})

NextView ==
    \/ \E p \in active : view_rasterize(p)
    \/ \E p \in active : view_write(p)
    \/ \E p \in active : view_run_native(p)
    \/ \E p \in active : view_read(p)
    \/ \E p \in active : view_remove(p)
    \/ \E p \in active : view_next(p)

SpecView == InitView /\ [][NextView]_vars

\* Two processes run one view command each, of different containers, in the
\* same directory at the same time.
InitConcurrentView ==
    /\ InitViewOf(Procs)
    /\ container[1] # container[2]

NextConcurrentView ==
    \/ \E p \in active : view_rasterize(p)
    \/ \E p \in active : view_write(p)
    \/ \E p \in active : view_run_native(p)
    \/ \E p \in active : view_read(p)
    \/ \E p \in active : view_remove(p)

SpecConcurrentView == InitConcurrentView /\ [][NextConcurrentView]_vars

\* C7: of two concurrent conversions each hands its own rasterized image to its
\* own display step; neither reads the result of the other.
NoSharedStateBetweenConversions ==
    \A p \in active :
        loaded[p] # None =>
            /\ loaded_of[p] = Some(<<p, run[p]>>)
            /\ loaded[p] = image[p]

\* C10: in view commands run one after another, the image SamPreview::default
\* loads is the PNG hif_to_png wrote in the same command, and once it has been
\* loaded and removed the file temp.png does not exist.
SameRunHandOff ==
    \A p \in active :
        /\ loaded[p] # None => loaded_of[p] = Some(<<p, run[p]>>)
        /\ vpc[p] = "shown" => temp = NoFile

(* ------------------------ properties of the codec --------------------- *)

\* The R, G, B channels of a source pixel.
rgb(pixel) == <<pixel[1], pixel[2], pixel[3]>>

\* hif_to_png has parsed the header and the stream of the file.
Decoded == pc = "paint" \/ (pc = "done" /\ ret = "returned")

\* hif_to_png has left its paint loop.
Painted == (pc = "paint" /\ i = num_chunks(pixel_data)) \/ (pc = "done" /\ ret = "returned")

\* C1: decoding the container the encoder wrote for a bitmap yields the
\* bitmap's width and height and, pixel by pixel in row-major order, its R, G
\* and B bytes.
RoundTripIdentity ==
    (Decoded /\ img # NoFile) =>
        LET b == img[1] IN
        /\ width = b.width
        /\ height = b.height
        /\ Len(pixel_data) = 3 * b.width * b.height
        /\ \A k \in 0..(b.width * b.height - 1) :
             chunk(pixel_data, k) = rgb(b.px[<<k % b.width, k \div b.width>>])

RoundTripWitness ==
    /\ pc = "done"
    /\ ret = "returned"
    /\ img # NoFile
    /\ img[1].width = 2
    /\ img[1].height = 2
    /\ img[1].px[<<1, 0>>] # img[1].px[<<0, 1>>]

\* C2: the buffer the encoder writes is 4 bytes of width, 4 bytes of height and
\* one triplet per pixel, 8 + width * height * 3 bytes in all; 11 bytes for a
\* 1 x 1 bitmap.
ExactLength ==
    (hif # NoFile /\ img # NoFile) =>
        LET b == img[1] IN
        /\ Len(hif[1]) = 8 + b.width * b.height * 3
        /\ SubSeq(hif[1], 1, 4) = to_ne_bytes(b.width, endian)
        /\ SubSeq(hif[1], 5, 8) = to_ne_bytes(b.height, endian)
        /\ (b.width = 1 /\ b.height = 1) => Len(hif[1]) = 11

ExactLengthWitness ==
    /\ hif # NoFile
    /\ img # NoFile
    /\ img[1].width = 1
    /\ img[1].height = 1
    /\ Len(hif[1]) = 11

\* The 2 x 2 bitmap red, green / blue, white.
RgbwBitmap(b) ==
    /\ b.width = 2
    /\ b.height = 2
    /\ rgb(b.px[<<0, 0>>]) = Red
    /\ rgb(b.px[<<1, 0>>]) = Green
    /\ rgb(b.px[<<0, 1>>]) = Blue
    /\ rgb(b.px[<<1, 1>>]) = White

\* C4: the encoder stores pixel (x, y) at stream offset (y * width + x) * 3;
\* the rasterizer paints every coordinate of the surface exactly once, from the
\* triplet at that offset and with full opacity; the 2 x 2 bitmap red, green /
\* blue, white gives the stream 255,0,0, 0,255,0, 0,0,255, 255,255,255, red at
\* (0,0) and white at (1,1).
RowMajorAddressing ==
    /\ (hif # NoFile /\ img # NoFile) =>
         LET b == img[1]
             stream == SubSeq(hif[1], 9, Len(hif[1]))
         IN  /\ \A c \in Coords(b.width, b.height) :
                  LET off == (c[2] * b.width + c[1]) * 3
                  IN  SubSeq(stream, off + 1, off + 3) = rgb(b.px[c])
             /\ RgbwBitmap(b) =>
                  stream = <<255, 0, 0, 0, 255, 0, 0, 0, 255, 255, 255, 255>>
    /\ (Painted /\ img # NoFile) =>
         /\ \A c \in Coords(width, height) :
              LET off == (c[2] * width + c[1]) * 3
                  hits == {k \in 1..Len(draws) : draws[k][1] = c[1] /\ draws[k][2] = c[2]}
              IN  /\ Cardinality(hits) = 1
                  /\ \A k \in hits : draws[k][3] = off
                  /\ surface[1].pix[c] =
                       <<pixel_data[off + 1], pixel_data[off + 2], pixel_data[off + 3], 255>>
         /\ RgbwBitmap(img[1]) =>
              /\ surface[1].pix[<<0, 0>>] = <<255, 0, 0, 255>>
              /\ surface[1].pix[<<1, 1>>] = <<255, 255, 255, 255>>

RowMajorWitness ==
    /\ pc = "done"
    /\ ret = "returned"
    /\ img # NoFile
    /\ RgbwBitmap(img[1])
    /\ Len(draws) = 4

\* The bitmap b with its alpha channel replaced by al.
with_alpha(b, al) ==
    [b EXCEPT !.px = [c \in DOMAIN b.px |-> rgb(b.px[c]) \o <<al[c]>>]]

\* C9: the container written for a bitmap is the container of every bitmap of
\* the same dimensions and R, G, B values, whatever its alpha values.
AlphaDropped ==
    (pc = "view" /\ hif # NoFile /\ img # NoFile) =>
        \A al \in [DOMAIN img[1].px -> Alphas] :
            hif_bytes(with_alpha(img[1], al), endian) = hif[1]

AlphaDroppedWitness ==
    /\ pc = "view"
    /\ hif # NoFile
    /\ img # NoFile
    /\ img[1].width = 2
    /\ img[1].height = 2
    /\ img[1].px[<<0, 0>>][4] = 128
    /\ img[1].px[<<0, 1>>][4] = 255

\* The width * height * 3 a container of at least 8 bytes declares.
declared(buf) ==
    convert_bytes_to_u32_ne(SubSeq(buf, 1, 4), endian)
        * convert_bytes_to_u32_ne(SubSeq(buf, 5, 8), endian) * 3

\* A buffer shorter than its header, or than the stream its header declares.
Truncated(buf) == Len(buf) < 8 \/ declared(buf) > Len(buf) - 8

\* C3: decoding a truncated buffer ends in a decode error returned to the
\* caller: no crash, no surface and no output image.
TruncationRejected ==
    (pc = "done" /\ hif # NoFile /\ Truncated(hif[1])) =>
        /\ ret = "Err"
        /\ surface = None
        /\ temp = NoFile

\* A buffer with more bytes after the header than the header declares.
Overlong(buf) == Len(buf) >= 8 /\ Len(buf) - 8 > declared(buf)

\* C8: decoding a buffer with trailing bytes never crashes, and either rejects
\* the buffer or gives the result of decoding the buffer cut to
\* 8 + width * height * 3 bytes.
TrailingBytesPolicy ==
    (pc = "done" /\ hif # NoFile /\ Overlong(hif[1])) =>
        /\ ret \notin {PanicSlice, PanicUnwrap, PanicDivZero}
        /\ \/ ret \in {"Err", PanicWrite}
           \/ /\ surface # None
              /\ surface[1] = paint_from(new_raster(width, height)[1],
                                         SubSeq(pixel_data, 1, width * height * 3), 0, width)

====
